---- MODULE Spec2Model ----
(***************************************************************************)
(* Model of PyWMIPersistenceFinder-python3.py (main).                      *)
(*                                                                         *)
(* Bytes are modelled by symbols.  A symbol stands for a fixed, indivisible*)
(* run of bytes; a byte string is a sequence of symbols:                   *)
(*   "FTCB"          _FilterToConsumerBinding        (word characters)     *)
(*   "CommandLine"   CommandLine                     (word characters)     *)
(*   "ActiveScript"  ActiveScript                    (word characters)     *)
(*   "EventConsumer" EventConsumer                   (word characters)     *)
(*   "_EventFilter"  _EventFilter                    (word characters)     *)
(*   "X" "BVTConsumer" "BVTFilter" "Trg"             (word characters)     *)
(*   "DOTNAME"       .Name="                                               *)
(*   "Q"             "                                                     *)
(*   "SP" "NL"       space, newline                  (white space)         *)
(*   "NUL"           \x00                                                  *)
(*   "txt"           printable ASCII bytes that are no word characters     *)
(*   "hi"            the byte \xff (no valid UTF-8, not printable)         *)
(*   "-" " ~ " "FilterName:" "FilterQuery:"  literals of the format strings*)
(***************************************************************************)
EXTENDS Integers, Sequences, FiniteSets, TLC

\* ---------------------------------------------------------------- bounds
MaxUnits == 5

\* ------------------------------------------------------- program constants
\* the four readline() calls before each loop and the append/pop(0) pair
\* keep lines_list at this length
WindowDepth == 4

WordSyms == {"FTCB", "CommandLine", "ActiveScript", "EventConsumer",
             "_EventFilter", "X", "BVTConsumer", "BVTFilter", "Trg"}
SpaceSyms == {"SP", "NL"}
NameSyms == WordSyms \cup SpaceSyms
NonNulSyms == NameSyms \cup {"DOTNAME", "Q", "txt", "hi"}

\* b"_FilterToConsumerBinding", b"EventConsumer", b"CommandLineEventConsumer"
BindingMarker == <<"FTCB">>
ConsumerMarker == <<"EventConsumer">>
CommandLineMarker == <<"CommandLine", "EventConsumer">>

\* the two binding ids the report annotates
AllowList == { <<"BVTConsumer", "-", "BVTFilter">>,
               <<"SCM Event Log Consumer", "-", "SCM Event Log Filter">> }

\* ------------------------------------------------------------- the inputs
\* units (lines without their newline) the input files are built from
U_MarkCons == <<"FTCB", "ActiveScript", "EventConsumer", "DOTNAME", "BVTConsumer", "Q">>
U_FiltRef == <<"_EventFilter", "DOTNAME", "BVTFilter", "Q">>
U_Binding == <<"FTCB", "CommandLine", "EventConsumer", "DOTNAME", "X", "BVTConsumer", "Q",
               "_EventFilter", "DOTNAME", "Trg", "Q">>
U_CmdInst == <<"CommandLine", "EventConsumer", "NUL", "NUL", "txt", "NUL",
               "X", "BVTConsumer", "NUL", "NUL", "txt">>
U_GenInst == <<"ActiveScript", "EventConsumer", "NUL", "BVTConsumer", "NUL", "NUL",
               "txt", "NUL", "NUL", "hi">>
U_FiltInst == <<"BVTFilter", "NUL", "NUL", "txt", "NUL", "NUL">>

UnitPool == {U_MarkCons, U_FiltRef, U_Binding, U_CmdInst, U_GenInst, U_FiltInst}

Files == UNION { [1..n -> UnitPool] : n \in 1..MaxUnits }

\* environment: hash seeds of the interpreter, display encodings of the locale
HashSeeds == {"seedA", "seedB"}
Encodings == {"utf-8", "latin-1"}

\* ------------------------------------------------------ byte-string helpers
Min(S) == CHOOSE x \in S : \A y \in S : x <= y
Max(S) == CHOOSE x \in S : \A y \in S : x >= y
Range(s) == { s[i] : i \in 1..Len(s) }

\* pat occurs in page at position p (1-based); the empty pattern occurs everywhere
At(page, pat, p) ==
    /\ p >= 1
    /\ p + Len(pat) - 1 <= Len(page)
    /\ \A k \in 1..Len(pat) : page[p + k - 1] = pat[k]

\* bytes `in` bytes
Contains(page, pat) == \E p \in 1..(Len(page) + 1) : At(page, pat, p)

\* first position >= p whose symbol is outside Cls (Len+1 if none): the end of
\* a greedy character-class repetition that starts at p
RECURSIVE RunEnd(_, _, _)
RunEnd(page, p, Cls) ==
    IF p > Len(page) \/ page[p] \notin Cls THEN p ELSE RunEnd(page, p + 1, Cls)

\* ------------------------------------------------------- pass 1: patterns
\* re.search of  ([\w\_]*EventConsumer\.Name\=\")([\w\s]*)(\")  (lit = "EventConsumer")
\* and of        (_EventFilter\.Name\=\")([\w\s]*)(\")          (lit = "_EventFilter"):
\* the leftmost occurrence of lit .Name=" whose greedy run of word and space
\* characters is closed by a quote; group 2 is that run.
NameStarts(page, lit) ==
    { j \in 1..Len(page) :
        /\ At(page, <<lit, "DOTNAME">>, j)
        /\ LET e == RunEnd(page, j + 2, NameSyms)
           IN  e <= Len(page) /\ page[e] = "Q" }

NameSearch(page, lit) ==
    LET starts == NameStarts(page, lit)
    IN  IF starts = {}
        THEN [found |-> FALSE, name |-> <<>>]
        ELSE LET j == Min(starts)
                 e == RunEnd(page, j + 2, NameSyms)
             IN  [found |-> TRUE, name |-> SubSeq(page, j + 2, e - 1)]

event_consumer_mo(page) == NameSearch(page, "EventConsumer")
event_filter_mo(page) == NameSearch(page, "_EventFilter")

\* ------------------------------------------------------------ dictionaries
\* a dict is the sequence of its items in insertion order
Keys(d) == { d[i].name : i \in 1..Len(d) }
Get(d, n) == UNION { d[i].details : i \in { k \in 1..Len(d) : d[k].name = n } }

\* EnsureKey with the membership test inverted
EnsureKey_inverted(d, n) ==
    IF n \notin Keys(d) THEN d ELSE Append(d, [name |-> n, details |-> {}])

\* if name not in dict: dict[name] = set()
EnsureKey(d, n) ==
    IF n \in Keys(d) THEN d ELSE Append(d, [name |-> n, details |-> {}])

\* AddDetail that stores the record under a key of its own
AddDetail_newkey(d, n, rec) == Append(d, [name |-> rec, details |-> {rec}])

\* dict[name].add(rec)
AddDetail(d, n, rec) ==
    [ i \in 1..Len(d) |->
        IF d[i].name = n THEN [d[i] EXCEPT !.details = @ \cup {rec}] ELSE d[i] ]

BindingIds(b) == { b[i].id : i \in 1..Len(b) }

\* (b"%b-%b" % (event_consumer_name, event_filter_name)).decode()
MakeBindingId(c, f) == c \o <<"-">> \o f

\* if binding_id not in bindings_dict: bindings_dict[binding_id] = {...}
AddBinding(b, c, f) ==
    IF MakeBindingId(c, f) \in BindingIds(b)
    THEN b
    ELSE Append(b, [id |-> MakeBindingId(c, f),
                    event_consumer_name |-> c,
                    event_filter_name |-> f])

\* BothMatch with `or` in place of `and`
BothMatch_either(page) ==
    event_consumer_mo(page).found \/ event_filter_mo(page).found

\* the condition under which a window with the marker records a binding
BothMatch(page) ==
    event_consumer_mo(page).found /\ event_filter_mo(page).found

\* body of the pass-1 loop for one window: the three dictionaries afterwards
LocateBinding(page, b, cd, fd) ==
    IF Contains(page, BindingMarker) /\ BothMatch(page)
    THEN LET c == event_consumer_mo(page).name
             f == event_filter_mo(page).name
         IN  [bindings |-> AddBinding(b, c, f),
              consumers |-> EnsureKey(cd, c),
              filters |-> EnsureKey(fd, f)]
    ELSE [bindings |-> b, consumers |-> cd, filters |-> fd]

\* ------------------------------------------------------- pass 2: patterns
CmdHead == <<"CommandLine", "EventConsumer", "NUL", "NUL">>

\* re.search of
\*   (CommandLineEventConsumer)(\x00\x00)(.*?)(\x00)(.*?)(NAME)(\x00\x00)?([^\x00]*)?
\* finds a match iff the head occurs, a NUL follows it and NAME occurs after
\* that NUL (the two .*? absorb anything in between, the tail is optional)
CmdMatch(page, n) ==
    \E i \in 1..Len(page) :
        /\ At(page, CmdHead, i)
        /\ \E k \in (i + 4)..Len(page) :
              /\ page[k] = "NUL"
              /\ \E p \in (k + 1)..(Len(page) + 1) : At(page, n, p)

\* positions p where  (NAME)(\x00\x00)([^\x00]*)(\x00\x00)  matches
TailStarts(page, n) ==
    { p \in 1..(Len(page) + 1) :
        /\ At(page, n, p)
        /\ At(page, <<"NUL", "NUL">>, p + Len(n))
        /\ At(page, <<"NUL", "NUL">>, RunEnd(page, p + Len(n) + 2, NonNulSyms)) }

\* re.search of
\*   (\w*EventConsumer)(.*?)(NAME)(\x00\x00)([^\x00]*)(\x00\x00)([^\x00]*)
\* and the record  b"%b ~ %b ~ %b ~ %b" % (groups 0, 2, 4, 6)
GenSearch(page, n) ==
    LET tails == TailStarts(page, n)
        ecs == { j \in 1..Len(page) :
                   page[j] = "EventConsumer" /\ \E p \in tails : p >= j + 1 }
    IN  IF ecs = {}
        THEN [found |-> FALSE, details |-> <<>>]
        ELSE LET j0 == Min(ecs)
                 \* leftmost start: the beginning of the word run that holds j0
                 s == Min({ k \in 1..j0 : \A m \in k..j0 : page[m] \in WordSyms })
                 \* greedy \w*: the last EventConsumer of that run that still matches
                 j == Max({ k \in ecs : \A m \in s..k : page[m] \in WordSyms })
                 \* lazy .*?: the first NAME with a matching tail
                 p == Min({ q \in tails : q >= j + 1 })
                 a == p + Len(n) + 2
                 e == RunEnd(page, a, NonNulSyms)
                 z == RunEnd(page, e + 2, NonNulSyms)
             IN  [found |-> TRUE,
                  details |-> SubSeq(page, s, j) \o <<" ~ ">> \o n \o <<" ~ ">>
                              \o SubSeq(page, a, e - 1) \o <<" ~ ">>
                              \o SubSeq(page, e + 2, z - 1)]

\* re.search of  (NAME)(\x00\x00)([^\x00]*)(\x00\x00)  and the record
\* b"\n\t\tFilter name:  %b\n\t\tFilter Query: %b" % (groups 0, 2)
FilterSearch(page, n) ==
    LET tails == TailStarts(page, n)
    IN  IF tails = {}
        THEN [found |-> FALSE, details |-> <<>>]
        ELSE LET p == Min(tails)
                 a == p + Len(n) + 2
                 e == RunEnd(page, a, NonNulSyms)
             IN  [found |-> TRUE,
                  details |-> <<"FilterName:">> \o n \o <<"FilterQuery:">>
                              \o SubSeq(page, a, e - 1)]

\* IsCmdWindow that never selects the command-line pattern
IsCmdWindow_never(page) == FALSE

\* which of the two consumer patterns a window is searched with
IsCmdWindow(page) == Contains(page, CommandLineMarker)

\* the generic branch for the names ns[i..], in the order of the dict's items
RECURSIVE GenericLoop(_, _, _, _)
GenericLoop(page, cd, ns, i) ==
    IF i > Len(ns)
    THEN cd
    ELSE LET consumer_match == GenSearch(page, ns[i])
         IN  GenericLoop(page,
                         IF consumer_match.found
                         THEN AddDetail(cd, ns[i], consumer_match.details)
                         ELSE cd,
                         ns, i + 1)

\* the consumer loop of one pass-2 window.  In a command-line window the first
\* name whose pattern matches reaches bytes.format(), which raises
\* AttributeError; the names before it did not match and add nothing.
ExtractConsumers(page, cd) ==
    LET ns == [ i \in 1..Len(cd) |-> cd[i].name ]
    IN
    IF ~Contains(page, ConsumerMarker)
    THEN [dict |-> cd, triedCmd |-> {}, triedGen |-> {}, matchedCmd |-> {},
          err |-> "none"]
    ELSE IF IsCmdWindow(page)
    THEN LET hits == { i \in 1..Len(ns) : CmdMatch(page, ns[i]) }
         IN  IF hits = {}
             THEN [dict |-> cd, triedCmd |-> Range(ns), triedGen |-> {},
                   matchedCmd |-> {}, err |-> "none"]
             ELSE [dict |-> cd,
                   triedCmd |-> { ns[i] : i \in 1..Min(hits) },
                   triedGen |-> {},
                   matchedCmd |-> { ns[Min(hits)] },
                   err |-> "AttributeError"]
    ELSE [dict |-> GenericLoop(page, cd, ns, 1),
          triedCmd |-> {}, triedGen |-> Range(ns), matchedCmd |-> {},
          err |-> "none"]

\* the filter loop of one pass-2 window
RECURSIVE FilterLoop(_, _, _, _)
FilterLoop(page, fd, ns, i) ==
    IF i > Len(ns)
    THEN fd
    ELSE LET filter_match == FilterSearch(page, ns[i])
         IN  FilterLoop(page,
                        IF Contains(page, ns[i]) /\ filter_match.found
                        THEN AddDetail(fd, ns[i], filter_match.details)
                        ELSE fd,
                        ns, i + 1)

ExtractFilters(page, fd) ==
    FilterLoop(page, fd, [ i \in 1..Len(fd) |-> fd[i].name ], 1)

\* ------------------------------------------------------------ window reader
VARIABLES
    file,            \* the input: a sequence of units
    pc,              \* position of main()
    pass_no,         \* 0 before the first open(), then 1 or 2
    lines_list,      \* the last lines read, as line numbers; 0 is b"" (end of file)
    pos,             \* number of readline() calls on the open file object
    drained,         \* passes whose file object has returned b""
    evaluated,       \* per pass, the lines_list of every window the loop body saw
    page_seen,       \* potential_page of the latest loop body
    bindings_dict,
    consumer_dict,
    filter_dict,
    triedCmd,        \* names the command-line pattern was searched for, latest window
    triedGen,        \* names the generic pattern was searched for, latest window
    matchedCmd,      \* names whose command-line pattern matched, latest window
    next_binding,    \* index of the next binding the report prints
    report,          \* lines printed so far
    err,             \* "none" or the exception that ended the process
    hashseed,        \* hash seed of this interpreter process
    encoding,        \* locale.getpreferredencoding()
    run,             \* 1 for the first invocation on the file, 2 for the second
    prev             \* outcome of the first invocation, once it has ended

vars == <<file, pc, pass_no, lines_list, pos, drained, evaluated, page_seen,
          bindings_dict, consumer_dict, filter_dict, triedCmd, triedGen,
          matchedCmd, next_binding, report, err, hashseed, encoding, run, prev>>

NumUnits == Len(file)

\* objects_file.readline() as the k-th call on a fresh file object
ReadLine(k) == IF k <= NumUnits THEN k ELSE 0

\* the bytes of a line: the unit and its newline; b"" at end of file
LineBytes(k) == IF k = 0 THEN <<>> ELSE file[k] \o <<"NL">>

\* b" ".join(lines_list)
RECURSIVE Join(_)
Join(ll) ==
    IF ll = <<>> THEN <<>>
    ELSE IF Len(ll) = 1 THEN LineBytes(ll[1])
    ELSE LineBytes(ll[1]) \o <<"SP">> \o Join(Tail(ll))

\* .replace(b"\n", b"")
StripNewlines(page) == SelectSeq(page, LAMBDA x : x # "NL")

\* the four readline() calls that fill lines_list before a loop
FirstLines == [ k \in 1..WindowDepth |-> ReadLine(k) ]

\* while current_line:  (current_line is the line appended last)
LoopCond(ll) == ll[Len(ll)] # 0

\* current_line = readline(); lines_list.append(current_line); lines_list.pop(0)
Advance(ll, k) == Tail(Append(ll, ReadLine(k)))

\* ------------------------------------------------------------------ report
\* "BVTConsumer-BVTFilter" in binding_name or "SCM ..." in binding_name
Annotated(id) == \E a \in AllowList : Contains(id, a)

\* bytes.decode(locale.getpreferredencoding()) succeeds
Decodable(b, enc) == enc = "latin-1" \/ "hi" \notin Range(b)

\* a fixed total order on byte strings, to describe iteration orders with
SymRank == <<"FTCB", "CommandLine", "ActiveScript", "EventConsumer", "_EventFilter",
             "X", "BVTConsumer", "BVTFilter", "Trg", "DOTNAME", "Q", "SP", "NL",
             "NUL", "txt", "hi", "-", " ~ ", "FilterName:", "FilterQuery:">>
Code(x) == CHOOSE k \in 1..Len(SymRank) : SymRank[k] = x

RECURSIVE LexLess(_, _)
LexLess(a, b) ==
    IF b = <<>> THEN FALSE
    ELSE IF a = <<>> THEN TRUE
    ELSE IF Head(a) = Head(b) THEN LexLess(Tail(a), Tail(b))
    ELSE Code(Head(a)) < Code(Head(b))

\* for ... in <set of bytes>: the order follows the hashes of the members,
\* which depend on the interpreter's hash seed
SetOrder(S, seed) ==
    [ i \in 1..Cardinality(S) |->
        CHOOSE x \in S :
            IF seed = "seedA"
            THEN Cardinality({ y \in S : LexLess(y, x) }) = i - 1
            ELSE Cardinality({ y \in S : LexLess(x, y) }) = i - 1 ]

Line(k, t, a) == [kind |-> k, text |-> t, annotated |-> a]

\* print(... .format(x.decode(enc))) for each x of items, up to the first
\* x that does not decode
PrintEach(kind, items, enc) ==
    LET bad == { k \in 1..Len(items) : ~Decodable(items[k], enc) }
        n == IF bad = {} THEN Len(items) ELSE Min(bad) - 1
    IN  [lines |-> [ k \in 1..n |-> Line(kind, items[k], FALSE) ],
         ok |-> bad = {}]

\* body of the report loop for one binding
RenderBinding(bd, cd, fd, seed, enc) ==
    LET head == <<Line("binding", bd.id, Annotated(bd.id))>>
        cset == Get(cd, bd.event_consumer_name)
        cons == PrintEach("consumer",
                          IF cset # {} THEN SetOrder(cset, seed)
                          ELSE <<bd.event_consumer_name>>,
                          enc)
        filt == PrintEach("filter", SetOrder(Get(fd, bd.event_filter_name), seed), enc)
    IN  IF ~cons.ok
        THEN [lines |-> head \o cons.lines, ok |-> FALSE]
        ELSE [lines |-> head \o cons.lines \o filt.lines, ok |-> filt.ok]

\* ----------------------------------------------------------------- actions
NoOutcome == [ended |-> FALSE, pc |-> "start", err |-> "none", bindings |-> <<>>,
              consumers |-> <<>>, filters |-> <<>>, report |-> <<>>]

Outcome == [ended |-> TRUE, pc |-> pc, err |-> err, bindings |-> bindings_dict,
            consumers |-> consumer_dict, filters |-> filter_dict, report |-> report]

Init ==
    /\ file \in Files
    /\ pc = "start"
    /\ pass_no = 0
    /\ lines_list = <<>>
    /\ pos = 0
    /\ drained = {}
    /\ evaluated = [p \in {1, 2} |-> {}]
    /\ page_seen = <<>>
    /\ bindings_dict = <<>>
    /\ consumer_dict = <<>>
    /\ filter_dict = <<>>
    /\ triedCmd = {}
    /\ triedGen = {}
    /\ matchedCmd = {}
    /\ next_binding = 1
    /\ report = <<>>
    /\ err = "none"
    /\ hashseed = "unread"
    /\ encoding = "unread"
    /\ run = 1
    /\ prev = NoOutcome

\* open() and the four readline() calls before the pass-1 loop
Open1 ==
    /\ pc = "start"
    /\ pc' = "pass1"
    /\ pass_no' = 1
    /\ lines_list' = FirstLines
    /\ pos' = WindowDepth
    /\ drained' = IF NumUnits < WindowDepth THEN {1} ELSE {}
    /\ UNCHANGED <<file, evaluated, page_seen, bindings_dict, consumer_dict,
                   filter_dict, triedCmd, triedGen, matchedCmd, next_binding,
                   report, err, hashseed, encoding, run, prev>>

\* one iteration of the pass-1 loop
Pass1Step ==
    /\ pc = "pass1"
    /\ LoopCond(lines_list)
    /\ LET potential_page == Join(lines_list)
           r == LocateBinding(potential_page, bindings_dict, consumer_dict, filter_dict)
       IN  /\ page_seen' = potential_page
           /\ bindings_dict' = r.bindings
           /\ consumer_dict' = r.consumers
           /\ filter_dict' = r.filters
    /\ evaluated' = [evaluated EXCEPT ![1] = @ \cup {lines_list}]
    /\ lines_list' = Advance(lines_list, pos + 1)
    /\ pos' = pos + 1
    /\ drained' = IF ReadLine(pos + 1) = 0 THEN drained \cup {1} ELSE drained
    /\ UNCHANGED <<file, pc, pass_no, triedCmd, triedGen, matchedCmd, next_binding,
                   report, err, hashseed, encoding, run, prev>>

\* the pass-1 loop ends: close(), print the count, open() again and read four lines
Open2 ==
    /\ pc = "pass1"
    /\ ~LoopCond(lines_list)
    /\ pc' = "pass2"
    /\ pass_no' = 2
    /\ report' = Append(report, Line("count", <<Len(bindings_dict)>>, FALSE))
    /\ lines_list' = FirstLines
    /\ pos' = WindowDepth
    /\ drained' = IF NumUnits < WindowDepth THEN drained \cup {2} ELSE drained
    /\ page_seen' = <<>>
    /\ UNCHANGED <<file, evaluated, bindings_dict, consumer_dict, filter_dict,
                   triedCmd, triedGen, matchedCmd, next_binding, err, hashseed,
                   encoding, run, prev>>

\* one iteration of the pass-2 loop
Pass2Step ==
    /\ pc = "pass2"
    /\ LoopCond(lines_list)
    /\ LET potential_page == StripNewlines(Join(lines_list))
           c == ExtractConsumers(potential_page, consumer_dict)
       IN  /\ page_seen' = potential_page
           /\ evaluated' = [evaluated EXCEPT ![2] = @ \cup {lines_list}]
           /\ triedCmd' = c.triedCmd
           /\ triedGen' = c.triedGen
           /\ matchedCmd' = c.matchedCmd
           /\ consumer_dict' = c.dict
           /\ IF c.err # "none"
              THEN /\ pc' = "crashed"
                   /\ err' = c.err
                   /\ UNCHANGED <<filter_dict, lines_list, pos, drained>>
              ELSE /\ filter_dict' = ExtractFilters(potential_page, filter_dict)
                   /\ lines_list' = Advance(lines_list, pos + 1)
                   /\ pos' = pos + 1
                   /\ drained' = IF ReadLine(pos + 1) = 0
                                 THEN drained \cup {2} ELSE drained
                   /\ UNCHANGED <<pc, err>>
    /\ UNCHANGED <<file, pass_no, bindings_dict, next_binding, report, hashseed,
                   encoding, run, prev>>

\* the pass-2 loop ends: close() and print the "Bindings:" heading.  The hash
\* seed and the locale's encoding are fixed for the process; the report is
\* the first place that depends on them.
ReportStart ==
    /\ pc = "pass2"
    /\ ~LoopCond(lines_list)
    /\ pc' = "report"
    /\ next_binding' = 1
    /\ hashseed' \in HashSeeds
    /\ encoding' \in (IF run = 1 THEN Encodings ELSE {encoding})
    /\ report' = Append(report, Line("heading", <<>>, FALSE))
    /\ UNCHANGED <<file, pass_no, lines_list, pos, drained, evaluated, page_seen,
                   bindings_dict, consumer_dict, filter_dict, triedCmd, triedGen,
                   matchedCmd, err, run, prev>>

\* one iteration of the report loop
ReportBinding ==
    /\ pc = "report"
    /\ next_binding <= Len(bindings_dict)
    /\ LET r == RenderBinding(bindings_dict[next_binding], consumer_dict,
                              filter_dict, hashseed, encoding)
       IN  /\ report' = report \o r.lines
           /\ IF r.ok
              THEN /\ next_binding' = next_binding + 1
                   /\ UNCHANGED <<pc, err>>
              ELSE /\ pc' = "crashed"
                   /\ err' = "UnicodeDecodeError"
                   /\ UNCHANGED next_binding
    /\ UNCHANGED <<file, pass_no, lines_list, pos, drained, evaluated, page_seen,
                   bindings_dict, consumer_dict, filter_dict, triedCmd, triedGen,
                   matchedCmd, hashseed, encoding, run, prev>>

\* the closing message
ReportFooter ==
    /\ pc = "report"
    /\ next_binding > Len(bindings_dict)
    /\ pc' = "done"
    /\ report' = Append(report, Line("footer", <<>>, FALSE))
    /\ UNCHANGED <<file, pass_no, lines_list, pos, drained, evaluated, page_seen,
                   bindings_dict, consumer_dict, filter_dict, triedCmd, triedGen,
                   matchedCmd, next_binding, err, hashseed, encoding, run, prev>>

\* the program is started a second time on the same file, in a new process
Rescan ==
    /\ pc \in {"done", "crashed"}
    /\ run = 1
    /\ run' = 2
    /\ prev' = Outcome
    /\ pc' = "start"
    /\ pass_no' = 0
    /\ lines_list' = <<>>
    /\ pos' = 0
    /\ drained' = {}
    /\ evaluated' = [p \in {1, 2} |-> {}]
    /\ page_seen' = <<>>
    /\ bindings_dict' = <<>>
    /\ consumer_dict' = <<>>
    /\ filter_dict' = <<>>
    /\ triedCmd' = {}
    /\ triedGen' = {}
    /\ matchedCmd' = {}
    /\ next_binding' = 1
    /\ report' = <<>>
    /\ err' = "none"
    /\ hashseed' = "unread"
    /\ UNCHANGED <<file, encoding>>

Next ==
    \/ Open1
    \/ Pass1Step
    \/ Open2
    \/ Pass2Step
    \/ ReportStart
    \/ ReportBinding
    \/ ReportFooter

Spec == Init /\ [][Next]_vars

NextTwice == Next \/ Rescan

SpecTwice == Init /\ [][NextTwice]_vars

\* ================================================================= claims
IsPrefix(a, b) == Len(a) <= Len(b) /\ \A i \in 1..Len(a) : a[i] = b[i]
KeySeq(d) == [ i \in 1..Len(d) |-> d[i].name ]
Grows(d, e) ==
    /\ Len(d) <= Len(e)
    /\ \A i \in 1..Len(d) : e[i].name = d[i].name /\ d[i].details \subseteq e[i].details
ConsumerFound(page) == NameStarts(page, "EventConsumer") # {}
FilterFound(page) == NameStarts(page, "_EventFilter") # {}
WholeFile == Join([ i \in 1..NumUnits |-> i ])

\* every run of at most WindowDepth consecutive units lies in a window pass p evaluated
Covered(p) ==
    \A a \in 1..NumUnits : \A b \in a..NumUnits :
        b - a < WindowDepth =>
            \E w \in evaluated[p] : \A i \in a..b : i \in Range(w)

\* C1: in each pass, for every source of N >= 1 units (N < 4 included), every
\* run of at most 4 consecutive units is contained in a window the pass
\* evaluated.  Stated at the end of each pass.
C1_EveryRunInSomeWindow ==
    /\ pass_no = 2 => Covered(1)
    /\ pc \in {"report", "done"} => Covered(2)

\* C2: when the command-line pattern matches for a known consumer name in a
\* pass-2 window, the scan goes on and a detail record that starts with the
\* consumer type is in that consumer's detail set.
C2_CommandLineDetailAdded ==
    \A n \in matchedCmd :
        /\ pc # "crashed"
        /\ \E d \in Get(consumer_dict, n) : At(d, CommandLineMarker, 1)

\* C3: a binding line of the report carries the annotation if and only if its
\* id is exactly one of the two allow-listed ids.
C3_AnnotatedIffExactId ==
    \A k \in 1..Len(report) :
        report[k].kind = "binding" =>
            (report[k].annotated <=> report[k].text \in AllowList)

\* the file holds one binding marker, one consumer-name capture and one
\* filter-name capture, all within WindowDepth consecutive units
Occurrences(pat) ==
    UNION { { <<u, p>> : p \in { q \in 1..Len(file[u]) : At(file[u], pat, q) } } :
            u \in 1..NumUnits }
OneBinding ==
    /\ Cardinality(Occurrences(BindingMarker)) = 1
    /\ Cardinality(Occurrences(<<"EventConsumer", "DOTNAME">>)) = 1
    /\ Cardinality(Occurrences(<<"_EventFilter", "DOTNAME">>)) = 1
    /\ ConsumerFound(WholeFile) /\ FilterFound(WholeFile)
    /\ LET us == { o[1] : o \in Occurrences(BindingMarker)
                              \cup Occurrences(<<"EventConsumer", "DOTNAME">>)
                              \cup Occurrences(<<"_EventFilter", "DOTNAME">>) }
       IN  Max(us) - Min(us) < WindowDepth

\* C4: for an input with one well-formed binding within at most 4 consecutive
\* units, pass 1 ends with exactly one Binding, which pairs that binding's
\* consumer name with its filter name.
C4_ExactlyOneBinding ==
    (pass_no = 2 /\ OneBinding) =>
        /\ Len(bindings_dict) = 1
        /\ bindings_dict[1].event_consumer_name = event_consumer_mo(WholeFile).name
        /\ bindings_dict[1].event_filter_name = event_filter_mo(WholeFile).name

\* C5: a pass-1 window that contains the binding marker but in which the
\* consumer-name or the filter-name pattern does not match leaves the binding
\* map and both registries unchanged, raises no error, and the scan moves on
\* to the next window.
C5_MarkerWithoutNamesIsSkipped ==
    [][ ( /\ pc = "pass1"
          /\ LoopCond(lines_list)
          /\ Contains(Join(lines_list), BindingMarker)
          /\ ~(ConsumerFound(Join(lines_list)) /\ FilterFound(Join(lines_list))) )
        => ( /\ bindings_dict' = bindings_dict
             /\ consumer_dict' = consumer_dict
             /\ filter_dict' = filter_dict
             /\ pc' = "pass1"
             /\ err' = "none"
             /\ lines_list' = Advance(lines_list, pos + 1) ) ]_vars

\* a window with the marker and without a filter-name match has been
\* evaluated and the loop goes on
C5_Witness ==
    /\ pc = "pass1"
    /\ LoopCond(lines_list)
    /\ Contains(page_seen, BindingMarker)
    /\ ConsumerFound(page_seen)
    /\ ~FilterFound(page_seen)
    /\ evaluated[1] # {}

\* C6: in every state each Binding's consumer name is a key of the consumer
\* registry and its filter name a key of the filter registry, and no key,
\* binding or detail record is ever removed.
C6_NamesRegisteredNothingRemoved ==
    /\ [](\A i \in 1..Len(bindings_dict) :
            /\ bindings_dict[i].event_consumer_name \in Keys(consumer_dict)
            /\ bindings_dict[i].event_filter_name \in Keys(filter_dict))
    /\ [][ /\ IsPrefix(bindings_dict, bindings_dict')
           /\ Grows(consumer_dict, consumer_dict')
           /\ Grows(filter_dict, filter_dict') ]_vars

\* the report has ended for two bindings, with consumer and filter details
C6_Witness ==
    /\ pc = "done"
    /\ Len(bindings_dict) >= 2
    /\ \E i \in 1..Len(consumer_dict) : consumer_dict[i].details # {}
    /\ \E i \in 1..Len(filter_dict) : filter_dict[i].details # {}

\* C7: the report never fails on names or detail bytes that are no valid text
\* under the display encoding.
C7_ReportNeverFails == err # "UnicodeDecodeError"

\* C8: two scans of the same input end with the same binding map, the same
\* registries and the same rendered report.
C8_SameOutcomeTwice ==
    (run = 2 /\ pc \in {"done", "crashed"}) => Outcome = prev

\* C9: no pass-2 window is evaluated before pass 1 has read the source to its
\* end; a pass-2 window with the consumer marker searches for exactly the
\* registered consumer names; from the start of pass 2 on the key sets and the
\* binding map do not change and detail sets only grow.
C9_PassesOrderedKeysFixed ==
    /\ [](evaluated[2] # {} => 1 \in drained)
    /\ []((pc = "pass2" /\ Contains(page_seen, ConsumerMarker))
            => triedCmd \cup triedGen = Keys(consumer_dict))
    /\ [][ pass_no = 2 =>
             /\ KeySeq(consumer_dict') = KeySeq(consumer_dict)
             /\ KeySeq(filter_dict') = KeySeq(filter_dict)
             /\ bindings_dict' = bindings_dict
             /\ Grows(consumer_dict, consumer_dict')
             /\ Grows(filter_dict, filter_dict') ]_vars

\* pass 2 has evaluated two windows and added consumer and filter details
C9_Witness ==
    /\ pc = "pass2"
    /\ Cardinality(evaluated[2]) >= 2
    /\ \E i \in 1..Len(consumer_dict) : consumer_dict[i].details # {}
    /\ \E i \in 1..Len(filter_dict) : filter_dict[i].details # {}

\* C10: in pass 2 the pattern is chosen per window: with the literal
\* CommandLineEventConsumer in the window the generic pattern is searched for
\* no name, with EventConsumer but without that literal the command-line
\* pattern is searched for no name, without EventConsumer neither is searched
\* and the consumer registry stays as it is; a window adds at most one detail
\* record per consumer name.
C10_PatternChosenPerWindow ==
    /\ [](pass_no = 2 =>
            /\ Contains(page_seen, CommandLineMarker) => triedGen = {}
            /\ (Contains(page_seen, ConsumerMarker)
                  /\ ~Contains(page_seen, CommandLineMarker)) => triedCmd = {}
            /\ ~Contains(page_seen, ConsumerMarker) => (triedCmd = {} /\ triedGen = {}))
    /\ [][ (pc = "pass2" /\ LoopCond(lines_list)) =>
             /\ Len(consumer_dict') = Len(consumer_dict)
             /\ \A i \in 1..Len(consumer_dict) :
                   Cardinality(consumer_dict'[i].details)
                       <= Cardinality(consumer_dict[i].details) + 1
             /\ ~Contains(page_seen', ConsumerMarker)
                   => consumer_dict' = consumer_dict ]_vars

\* a window with the literal has been searched with the command-line pattern,
\* after an earlier window added a generic record
C10_Witness ==
    /\ pc = "pass2"
    /\ Contains(page_seen, CommandLineMarker)
    /\ triedCmd # {}
    /\ \E i \in 1..Len(consumer_dict) : consumer_dict[i].details # {}

====
